---- MODULE Spec2Model ----
(***************************************************************************)
(* The lock-free stack of prototypes/blink/src/stack.rs.                   *)
(*                                                                         *)
(* The shared state is the atomic head pointer and the heap of nodes the   *)
(* raw pointers denote.  Every operation is split at its accesses to       *)
(* shared memory (the atomic operations on head, the allocator, reads and  *)
(* writes through raw pointers), so that threads interleave as the code's  *)
(* threads do.  The allocator may hand out again any address that has      *)
(* been freed.  A read through a pointer to freed memory is undefined      *)
(* behaviour: it yields any value.                                         *)
(***************************************************************************)
EXTENDS Integers, Sequences, FiniteSets, TLC

\* ------------------------------------------------------------------ bounds
NThreads == 2
MaxAddr == 2
MaxVal == 3
MaxPayload == 1
MaxHandles == 2

Threads == 1..NThreads
NULL == 0
Addr == 1..MaxAddr
Ptr == Addr \cup {NULL}
Val == 1..MaxVal

VARIABLES
    head,        \* Stack.head: the atomic pointer
    heap,        \* the memory of the nodes: address -> Node {inner, next}
    allocated,   \* the addresses that hold a live allocation
    handles,     \* the number of live Stack handles on this head
    pc,          \* each thread's position in the operation it runs
    hd,          \* push: head / try_pop: head_ptr / compare_and_push: old / drop: ptr
    nd,          \* push, compare_and_push: node / pop_all: node_ptr
    nx,          \* try_pop: next_ptr
    val,         \* push, compare_and_push: the payload being inserted
    res,         \* pop_all: res
    ret,         \* what the step just taken returned to its caller (NoRet: nothing)
    nextVal,     \* the next payload to insert (payloads are distinct tokens)
    abs,         \* history: the values linked, in the order the atomic operations took effect
    lin,         \* history: the top of abs when a try_pop's swap took effect
    order,       \* history: the payloads installed as head, in the order of their swaps
    pushed,      \* history: the payloads whose insertion has returned success
    delivered,   \* history: how often each payload was returned by a pop
    freed,       \* history: the payloads whose node has been freed
    doubleFree,  \* history: a free of an address that held no allocation
    uaf,         \* history: an access through a pointer to freed memory
    changed,     \* history: head was written by another thread since the thread last read it
    lhs,         \* Error: self, the value an operation of Error is applied to
    rhs,         \* Error: other, the second operand of eq
    out          \* Error: what the operation just applied returned

shared == <<head, heap, allocated, handles>>
locals == <<pc, hd, nd, nx, val, res, ret>>
history == <<abs, lin, order, pushed, delivered, freed, doubleFree, uaf, changed>>
errs == <<lhs, rhs, out>>
vars == <<head, heap, allocated, handles, pc, hd, nd, nx, val, res, ret, nextVal,
          abs, lin, order, pushed, delivered, freed, doubleFree, uaf, changed,
          lhs, rhs, out>>

\* ----------------------------------------------------------------- helpers
\* What the step just taken returned to its caller, if it returned.
Result(t, op, tag, v, sq) == [t |-> t, op |-> op, tag |-> tag, val |-> v, seq |-> sq]
NoRet == Result(0, "none", "none", 0, <<>>)
Blank == [inner |-> 0, next |-> NULL]

\* A read of (*p).next: the field of a live node, anything of freed memory.
ReadNext(p) == IF p \in allocated THEN {heap[p].next} ELSE Ptr

\* A read of (*p).inner: the field of a live node, anything of freed memory.
ReadInner(p) == IF p \in allocated THEN {heap[p].inner} ELSE Val

RECURSIVE ChainFrom(_, _)
\* The addresses reached from pointer p by following next links, at most n of them.
ChainFrom(p, n) ==
    IF p = NULL \/ n = 0 THEN <<>>
    ELSE <<p>> \o ChainFrom(heap[p].next, n - 1)

Chain == ChainFrom(head, MaxAddr + 1)
ChainVals == [i \in 1..Len(Chain) |-> heap[Chain[i]].inner]
Range(s) == {s[i] : i \in 1..Len(s)}

\* The payloads whose node was installed as head at some time.
Linked == Range(order)

\* Memory remains for one more node, beside those of the pushes about to allocate.
CanAlloc ==
    Cardinality(allocated) + Cardinality({u \in Threads : pc[u] = "push_alloc"}) < MaxAddr

\* Box::new: any address without a live allocation receives the node.
Alloc(a, v, n) ==
    /\ a \in Addr \ allocated
    /\ allocated' = allocated \cup {a}
    /\ heap' = [heap EXCEPT ![a] = [inner |-> v, next |-> n]]

\* The drop of a Box<Node>: the allocation at address a is released.
FreeBox(a) ==
    /\ allocated' = allocated \ {a}
    /\ heap' = [heap EXCEPT ![a] = Blank]
    /\ freed' = IF a \in allocated THEN freed \cup {heap[a].inner} ELSE freed
    /\ doubleFree' = (doubleFree \/ a \notin allocated)

\* The positions at which a thread holds a snapshot of head it has yet to swap against.
Snapshot == {"push_alloc", "push_cas", "push_relink", "pop_read", "pop_cas"}

\* Thread t wrote head: the snapshots the other threads hold are stale, its own is spent.
Stale(t) ==
    [u \in Threads |->
        IF u = t THEN FALSE
        ELSE IF pc[u] \in Snapshot /\ head' # head THEN TRUE
        ELSE changed[u]]

\* The values of a thread's locals once its operation has returned.
Clear(f, t, z) == [f EXCEPT ![t] = z]

Bump(f, x) == [f EXCEPT ![x] = IF @ < 2 THEN @ + 1 ELSE @]

TypeOK ==
    /\ head \in Ptr
    /\ heap \in [Addr -> [inner : 0..MaxVal, next : Ptr]]
    /\ allocated \subseteq Addr
    /\ handles \in 0..MaxHandles
    /\ nextVal \in 1..(MaxVal + 1)

\* Stack::default(): an empty stack, one handle, no operation running.
StackInit ==
    /\ head = NULL
    /\ heap = [a \in Addr |-> Blank]
    /\ allocated = {}
    /\ handles = 1
    /\ pc = [t \in Threads |-> "idle"]
    /\ hd = [t \in Threads |-> NULL]
    /\ nd = [t \in Threads |-> NULL]
    /\ nx = [t \in Threads |-> NULL]
    /\ val = [t \in Threads |-> 0]
    /\ res = [t \in Threads |-> <<>>]
    /\ ret = NoRet
    /\ nextVal = 1
    /\ abs = <<>>
    /\ lin = [t \in Threads |-> 0]
    /\ order = <<>>
    /\ pushed = {}
    /\ delivered = [v \in Val |-> 0]
    /\ freed = {}
    /\ doubleFree = FALSE
    /\ uaf = FALSE
    /\ changed = [t \in Threads |-> FALSE]

\* No Error value is at hand.
NoOut == [op |-> "none", tag |-> "none", val |-> 0]

Init == StackInit /\ lhs = NoOut /\ rhs = NoOut /\ out = NoOut

\* -------------------------------------------------------------------- push
\* let mut head = self.head();
PushLoad(t) ==
    /\ pc[t] = "idle" /\ handles > 0 /\ nextVal <= MaxVal /\ CanAlloc
    /\ hd' = [hd EXCEPT ![t] = head]
    /\ val' = [val EXCEPT ![t] = nextVal]
    /\ nextVal' = nextVal + 1
    /\ changed' = [changed EXCEPT ![t] = FALSE]
    /\ ret' = NoRet
    /\ pc' = [pc EXCEPT ![t] = "push_alloc"]
    /\ UNCHANGED <<shared, nd, nx, res, abs, lin, order, pushed, delivered,
                   freed, doubleFree, uaf>>
    /\ UNCHANGED errs

\* push building its node with an empty next link
PushAllocUnlinked(t) ==
    /\ pc[t] = "push_alloc"
    /\ \E a \in Addr :
        /\ Alloc(a, val[t], NULL)
        /\ nd' = [nd EXCEPT ![t] = a]
    /\ pc' = [pc EXCEPT ![t] = "push_cas"]
    /\ ret' = NoRet
    /\ UNCHANGED <<head, handles, hd, nx, val, res, nextVal, history>>
    /\ UNCHANGED errs

\* let mut node = Box::into_raw(Box::new(Node { inner, next: head }));
PushAlloc(t) ==
    /\ pc[t] = "push_alloc"
    /\ \E a \in Addr :
        /\ Alloc(a, val[t], hd[t])
        /\ nd' = [nd EXCEPT ![t] = a]
    /\ pc' = [pc EXCEPT ![t] = "push_cas"]
    /\ ret' = NoRet
    /\ UNCHANGED <<head, handles, hd, nx, val, res, nextVal, history>>
    /\ UNCHANGED errs

\* self.head.compare_and_swap(head, node): the swap took effect; return
PushCasOk(t) ==
    /\ pc[t] = "push_cas" /\ head = hd[t]
    /\ head' = nd[t]
    /\ abs' = <<val[t]>> \o abs
    /\ order' = Append(order, val[t])
    /\ pushed' = pushed \cup {val[t]}
    /\ changed' = Stale(t)
    /\ ret' = Result(t, "push", "unit", 0, <<>>)
    /\ pc' = [pc EXCEPT ![t] = "idle"]
    /\ hd' = Clear(hd, t, NULL) /\ nd' = Clear(nd, t, NULL) /\ val' = Clear(val, t, 0)
    /\ UNCHANGED <<heap, allocated, handles, nx, res, nextVal,
                   lin, delivered, freed, doubleFree, uaf>>
    /\ UNCHANGED errs

\* push retrying against the head it first read, not the one the swap returned
PushCasFailKeepsHead(t) ==
    /\ pc[t] = "push_cas" /\ head # hd[t]
    /\ changed' = [changed EXCEPT ![t] = FALSE]
    /\ pc' = [pc EXCEPT ![t] = "push_relink"]
    /\ ret' = NoRet
    /\ UNCHANGED <<shared, hd, nd, nx, val, res, nextVal, abs, lin, order,
                   pushed, delivered, freed, doubleFree, uaf>>
    /\ UNCHANGED errs

\* the swap returned another head: head = ret
PushCasFail(t) ==
    /\ pc[t] = "push_cas" /\ head # hd[t]
    /\ hd' = [hd EXCEPT ![t] = head]
    /\ changed' = [changed EXCEPT ![t] = FALSE]
    /\ pc' = [pc EXCEPT ![t] = "push_relink"]
    /\ ret' = NoRet
    /\ UNCHANGED <<shared, nd, nx, val, res, nextVal, abs, lin, order,
                   pushed, delivered, freed, doubleFree, uaf>>
    /\ UNCHANGED errs

\* push retrying without relinking its node to the head it has just read
PushRelinkSkips(t) ==
    /\ pc[t] = "push_relink"
    /\ pc' = [pc EXCEPT ![t] = "push_cas"]
    /\ ret' = NoRet
    /\ UNCHANGED <<shared, hd, nd, nx, val, res, nextVal, history>>
    /\ UNCHANGED errs

\* push writing the link of the head node it has just read, not of its own node
PushRelinkWritesHead(t) ==
    /\ pc[t] = "push_relink"
    /\ heap' = IF hd[t] \in allocated
               THEN [heap EXCEPT ![hd[t]].next = nd[t]]
               ELSE heap
    /\ uaf' = (uaf \/ (hd[t] # NULL /\ hd[t] \notin allocated))
    /\ pc' = [pc EXCEPT ![t] = "push_cas"]
    /\ ret' = NoRet
    /\ UNCHANGED <<head, allocated, handles, hd, nd, nx, val, res, nextVal,
                   abs, lin, order, pushed, delivered, freed, doubleFree, changed>>
    /\ UNCHANGED errs

\* (*node).next = head; and around the loop
PushRelink(t) ==
    /\ pc[t] = "push_relink"
    /\ heap' = IF nd[t] \in allocated
               THEN [heap EXCEPT ![nd[t]].next = hd[t]]
               ELSE heap
    /\ uaf' = (uaf \/ nd[t] \notin allocated)
    /\ pc' = [pc EXCEPT ![t] = "push_cas"]
    /\ ret' = NoRet
    /\ UNCHANGED <<head, allocated, handles, hd, nd, nx, val, res, nextVal,
                   abs, lin, order, pushed, delivered, freed, doubleFree, changed>>
    /\ UNCHANGED errs

Push(t) ==
    \/ PushLoad(t)
    \/ PushAlloc(t)
    \/ PushCasOk(t)
    \/ PushCasFail(t)
    \/ PushRelink(t)

\* ----------------------------------------------------------------- pop_all
\* pop_all reading head with a load where the code swaps in null
PopAllSwapLoads(t) ==
    /\ pc[t] = "idle" /\ handles > 0
    /\ nd' = [nd EXCEPT ![t] = head]
    /\ head' = head
    /\ res' = [res EXCEPT ![t] = <<>>]
    /\ abs' = <<>>
    /\ changed' = Stale(t)
    /\ ret' = NoRet
    /\ pc' = [pc EXCEPT ![t] = "drain"]
    /\ UNCHANGED <<heap, allocated, handles, hd, nx, val, nextVal, lin, order,
                   pushed, delivered, freed, doubleFree, uaf>>
    /\ UNCHANGED errs

\* let mut node_ptr = self.head.swap(ptr::null_mut());
PopAllSwap(t) ==
    /\ pc[t] = "idle" /\ handles > 0
    /\ nd' = [nd EXCEPT ![t] = head]
    /\ head' = NULL
    /\ res' = [res EXCEPT ![t] = <<>>]
    /\ abs' = <<>>
    /\ changed' = Stale(t)
    /\ ret' = NoRet
    /\ pc' = [pc EXCEPT ![t] = "drain"]
    /\ UNCHANGED <<heap, allocated, handles, hd, nx, val, nextVal, lin, order,
                   pushed, delivered, freed, doubleFree, uaf>>
    /\ UNCHANGED errs

\* pop_all collecting the payloads in front of those it has already taken
PopAllStepPrepends(t) ==
    /\ pc[t] = "drain" /\ nd[t] # NULL /\ Len(res[t]) <= MaxVal
    /\ \E n \in ReadNext(nd[t]), x \in ReadInner(nd[t]) :
        /\ nd' = [nd EXCEPT ![t] = n]
        /\ res' = [res EXCEPT ![t] = <<x>> \o @]
        /\ delivered' = Bump(delivered, x)
    /\ FreeBox(nd[t])
    /\ uaf' = (uaf \/ nd[t] \notin allocated)
    /\ ret' = NoRet
    /\ UNCHANGED <<head, handles, pc, hd, nx, val, nextVal, abs, lin,
                   order, pushed, changed>>
    /\ UNCHANGED errs

\* one turn of the loop: the node is read, its payload kept, its box dropped
PopAllStep(t) ==
    /\ pc[t] = "drain" /\ nd[t] # NULL /\ Len(res[t]) <= MaxVal
    /\ \E n \in ReadNext(nd[t]), x \in ReadInner(nd[t]) :
        /\ nd' = [nd EXCEPT ![t] = n]
        /\ res' = [res EXCEPT ![t] = Append(@, x)]
        /\ delivered' = Bump(delivered, x)
    /\ FreeBox(nd[t])
    /\ uaf' = (uaf \/ nd[t] \notin allocated)
    /\ ret' = NoRet
    /\ UNCHANGED <<head, handles, pc, hd, nx, val, nextVal, abs, lin,
                   order, pushed, changed>>
    /\ UNCHANGED errs

\* the chain is consumed: res
PopAllReturn(t) ==
    /\ pc[t] = "drain" /\ nd[t] = NULL
    /\ ret' = Result(t, "pop_all", "vec", 0, res[t])
    /\ res' = Clear(res, t, <<>>)
    /\ pc' = [pc EXCEPT ![t] = "idle"]
    /\ UNCHANGED <<shared, hd, nd, nx, val, nextVal, history>>
    /\ UNCHANGED errs

PopAll(t) ==
    \/ PopAllSwap(t)
    \/ PopAllStep(t)
    \/ PopAllReturn(t)

\* ----------------------------------------------------------------- try_pop
\* try_pop reporting a conflict where the head it read is empty
PopLoadEmptyErrs(t) ==
    /\ pc[t] = "idle" /\ handles > 0
    /\ head = NULL
    /\ ret' = Result(t, "try_pop", "err", 0, <<>>)
    /\ UNCHANGED <<shared, pc, hd, nd, nx, val, res, nextVal, history>>
    /\ UNCHANGED errs

\* let head_ptr = self.head(); if head_ptr.is_null() { return Ok(None); }
PopLoadEmpty(t) ==
    /\ pc[t] = "idle" /\ handles > 0
    /\ head = NULL
    /\ ret' = Result(t, "try_pop", "none", 0, <<>>)
    /\ UNCHANGED <<shared, pc, hd, nd, nx, val, res, nextVal, history>>
    /\ UNCHANGED errs

\* let head_ptr = self.head(); let node = Box::from_raw(head_ptr);
PopLoad(t) ==
    /\ pc[t] = "idle" /\ handles > 0
    /\ head # NULL
    /\ hd' = [hd EXCEPT ![t] = head]
    /\ changed' = [changed EXCEPT ![t] = FALSE]
    /\ ret' = NoRet
    /\ pc' = [pc EXCEPT ![t] = "pop_read"]
    /\ UNCHANGED <<shared, nd, nx, val, res, nextVal, abs, lin, order, pushed,
                   delivered, freed, doubleFree, uaf>>
    /\ UNCHANGED errs

\* let next_ptr = node.next;
PopRead(t) ==
    /\ pc[t] = "pop_read"
    /\ \E n \in ReadNext(hd[t]) : nx' = [nx EXCEPT ![t] = n]
    /\ uaf' = (uaf \/ hd[t] \notin allocated)
    /\ pc' = [pc EXCEPT ![t] = "pop_cas"]
    /\ ret' = NoRet
    /\ UNCHANGED <<shared, hd, nd, val, res, nextVal, abs, lin, order,
                   pushed, delivered, freed, doubleFree, changed>>
    /\ UNCHANGED errs

\* try_pop installing the successor its head node has at the swap, read afresh
PopCasOkRereads(t) ==
    /\ pc[t] = "pop_cas" /\ head = hd[t]
    /\ \E n \in ReadNext(hd[t]) : head' = n
    /\ lin' = [lin EXCEPT ![t] = IF abs = <<>> THEN 0 ELSE Head(abs)]
    /\ abs' = IF abs = <<>> THEN <<>> ELSE Tail(abs)
    /\ changed' = Stale(t)
    /\ pc' = [pc EXCEPT ![t] = "pop_take"]
    /\ ret' = NoRet
    /\ UNCHANGED <<heap, allocated, handles, hd, nd, nx, val, res, nextVal,
                   order, pushed, delivered, freed, doubleFree, uaf>>
    /\ UNCHANGED errs

\* head_ptr == self.head.compare_and_swap(head_ptr, next_ptr): the swap took effect
PopCasOk(t) ==
    /\ pc[t] = "pop_cas" /\ head = hd[t]
    /\ head' = nx[t]
    /\ lin' = [lin EXCEPT ![t] = IF abs = <<>> THEN 0 ELSE Head(abs)]
    /\ abs' = IF abs = <<>> THEN <<>> ELSE Tail(abs)
    /\ changed' = Stale(t)
    /\ pc' = [pc EXCEPT ![t] = "pop_take"]
    /\ ret' = NoRet
    /\ UNCHANGED <<heap, allocated, handles, hd, nd, nx, val, res, nextVal,
                   order, pushed, delivered, freed, doubleFree, uaf>>
    /\ UNCHANGED errs

\* try_pop without the mem::forget: the box is dropped on the conflict path too
PopCasFailDrops(t) ==
    /\ pc[t] = "pop_cas" /\ head # hd[t]
    /\ ret' = Result(t, "try_pop", "err", 0, <<>>)
    /\ pc' = [pc EXCEPT ![t] = "idle"]
    /\ hd' = Clear(hd, t, NULL) /\ nx' = Clear(nx, t, NULL)
    /\ changed' = Clear(changed, t, FALSE)
    /\ FreeBox(hd[t])
    /\ UNCHANGED <<head, handles, nd, val, res, nextVal, abs, lin, order, pushed,
                   delivered, uaf>>
    /\ UNCHANGED errs

\* the swap returned another head: mem::forget(node); Err(())
PopCasFail(t) ==
    /\ pc[t] = "pop_cas" /\ head # hd[t]
    /\ ret' = Result(t, "try_pop", "err", 0, <<>>)
    /\ pc' = [pc EXCEPT ![t] = "idle"]
    /\ hd' = Clear(hd, t, NULL) /\ nx' = Clear(nx, t, NULL)
    /\ changed' = Clear(changed, t, FALSE)
    /\ UNCHANGED <<shared, nd, val, res, nextVal, abs, lin, order, pushed,
                   delivered, freed, doubleFree, uaf>>
    /\ UNCHANGED errs

\* Ok(Some(node.inner)): the payload is moved out and the box dropped
PopTake(t) ==
    /\ pc[t] = "pop_take"
    /\ \E x \in ReadInner(hd[t]) :
        /\ ret' = Result(t, "try_pop", "some", x, <<>>)
        /\ delivered' = Bump(delivered, x)
    /\ FreeBox(hd[t])
    /\ uaf' = (uaf \/ hd[t] \notin allocated)
    /\ pc' = [pc EXCEPT ![t] = "idle"]
    /\ hd' = Clear(hd, t, NULL) /\ nx' = Clear(nx, t, NULL) /\ lin' = Clear(lin, t, 0)
    /\ UNCHANGED <<head, handles, nd, val, res, nextVal, abs, order,
                   pushed, changed>>
    /\ UNCHANGED errs

TryPop(t) ==
    \/ PopLoadEmpty(t)
    \/ PopLoad(t)
    \/ PopRead(t)
    \/ PopCasOk(t)
    \/ PopCasFail(t)
    \/ PopTake(t)

\* -------------------------------------------------------- compare_and_push
\* let node = Box::into_raw(Box::new(Node { inner: new, next: old }));
CapAlloc(t) ==
    /\ pc[t] = "idle" /\ handles > 0 /\ nextVal <= MaxVal /\ CanAlloc
    /\ \E old \in Ptr, a \in Addr :
        /\ Alloc(a, nextVal, old)
        /\ hd' = [hd EXCEPT ![t] = old]
        /\ nd' = [nd EXCEPT ![t] = a]
    /\ val' = [val EXCEPT ![t] = nextVal]
    /\ nextVal' = nextVal + 1
    /\ ret' = NoRet
    /\ pc' = [pc EXCEPT ![t] = "cap_cas"]
    /\ UNCHANGED <<head, handles, nx, res, history>>
    /\ UNCHANGED errs

\* self.head.compare_and_swap(old, node): old == res, Ok(())
CapCasOk(t) ==
    /\ pc[t] = "cap_cas" /\ head = hd[t]
    /\ head' = nd[t]
    /\ abs' = <<val[t]>> \o abs
    /\ order' = Append(order, val[t])
    /\ pushed' = pushed \cup {val[t]}
    /\ changed' = Stale(t)
    /\ ret' = Result(t, "cap", "ok", 0, <<>>)
    /\ pc' = [pc EXCEPT ![t] = "idle"]
    /\ hd' = Clear(hd, t, NULL) /\ nd' = Clear(nd, t, NULL) /\ val' = Clear(val, t, 0)
    /\ UNCHANGED <<heap, allocated, handles, nx, res, nextVal,
                   lin, delivered, freed, doubleFree, uaf>>
    /\ UNCHANGED errs

\* compare_and_push installing its node although the swap found another head
CapCasFailLinks(t) ==
    /\ pc[t] = "cap_cas" /\ head # hd[t]
    /\ head' = nd[t]
    /\ ret' = Result(t, "cap", "err", head, <<>>)
    /\ pc' = [pc EXCEPT ![t] = "idle"]
    /\ hd' = Clear(hd, t, NULL) /\ nd' = Clear(nd, t, NULL) /\ val' = Clear(val, t, 0)
    /\ UNCHANGED <<heap, allocated, handles, nx, res, nextVal, history>>
    /\ UNCHANGED errs

\* the swap returned another head: Err(res); the node stays as Box::into_raw left it
CapCasFail(t) ==
    /\ pc[t] = "cap_cas" /\ head # hd[t]
    /\ ret' = Result(t, "cap", "err", head, <<>>)
    /\ pc' = [pc EXCEPT ![t] = "idle"]
    /\ hd' = Clear(hd, t, NULL) /\ nd' = Clear(nd, t, NULL) /\ val' = Clear(val, t, 0)
    /\ UNCHANGED <<shared, nx, res, nextVal, history>>
    /\ UNCHANGED errs

CompareAndPush(t) ==
    \/ CapAlloc(t)
    \/ CapCasOk(t)
    \/ CapCasFail(t)

\* -------------------------------------------------------------------- drop
\* let mut ptr = self.head();  (the handle is gone: no operation starts on it)
DropLoad(t) ==
    /\ pc[t] = "idle" /\ handles > 0
    /\ \A u \in Threads : pc[u] = "idle"
    /\ handles' = handles - 1
    /\ hd' = [hd EXCEPT ![t] = head]
    /\ ret' = NoRet
    /\ pc' = [pc EXCEPT ![t] = "drop_walk"]
    /\ UNCHANGED <<head, heap, allocated, nd, nx, val, res, nextVal, history>>
    /\ UNCHANGED errs

\* drop walking the chain without releasing the nodes it passes
DropStepForgets(t) ==
    /\ pc[t] = "drop_walk" /\ hd[t] # NULL
    /\ \E n \in ReadNext(hd[t]) : hd' = [hd EXCEPT ![t] = n]
    /\ ret' = NoRet
    /\ UNCHANGED <<shared, pc, nd, nx, val, res, nextVal, history>>
    /\ UNCHANGED errs

\* one turn of the loop: let node = Box::from_raw(ptr); ptr = node.next;
DropStep(t) ==
    /\ pc[t] = "drop_walk" /\ hd[t] # NULL
    /\ \E n \in ReadNext(hd[t]) : hd' = [hd EXCEPT ![t] = n]
    /\ FreeBox(hd[t])
    /\ uaf' = (uaf \/ hd[t] \notin allocated)
    /\ ret' = NoRet
    /\ UNCHANGED <<head, handles, pc, nd, nx, val, res, nextVal, abs, lin,
                   order, pushed, delivered, changed>>
    /\ UNCHANGED errs

\* the chain is walked
DropReturn(t) ==
    /\ pc[t] = "drop_walk" /\ hd[t] = NULL
    /\ ret' = Result(t, "drop", "unit", 0, <<>>)
    /\ pc' = [pc EXCEPT ![t] = "idle"]
    /\ UNCHANGED <<shared, hd, nd, nx, val, res, nextVal, history>>
    /\ UNCHANGED errs

DropStack(t) ==
    \/ DropLoad(t)
    \/ DropStep(t)
    \/ DropReturn(t)

\* ------------------------------------------------------------------- clone
\* #[derive(Clone)]: the new handle holds a clone of the Arc, that is, the same head.
CloneStack(t) ==
    /\ pc[t] = "idle" /\ handles > 0 /\ handles < MaxHandles
    /\ handles' = handles + 1
    /\ ret' = Result(t, "clone", "unit", 0, <<>>)
    /\ UNCHANGED <<head, heap, allocated, pc, hd, nd, nx, val, res, nextVal, history>>
    /\ UNCHANGED errs

\* ------------------------------------------------------------------- Error
\* The payloads: a value of each payload type carries its type and a token.
Typed(ty, n) == [ty |-> ty, v |-> n]
Payload(ty) == {Typed(ty, n) : n \in 0..MaxPayload}

CasFailed(a) == [variant |-> "CasFailed", payload |-> a]
Unsupported(s) == [variant |-> "Unsupported", payload |-> s]
ReportableBug(s) == [variant |-> "ReportableBug", payload |-> s]
Io(e) == [variant |-> "Io", payload |-> e]
Corruption(at) == [variant |-> "Corruption", payload |-> at]

\* The values of Error<Actual>.
Errors ==
    {CasFailed(a) : a \in Payload("Actual")}
    \cup {Unsupported(s) : s \in Payload("String")}
    \cup {ReportableBug(s) : s \in Payload("String")}
    \cup {Io(e) : e \in Payload("io::Error")}
    \cup {Corruption(at) : at \in Payload("LogID")}

\* eq with an arm for Io that compares the two io errors
EqComparesIo(l, r) ==
    CASE l.variant = "CasFailed" ->
            IF r.variant = "CasFailed" THEN l.payload = r.payload ELSE FALSE
      [] l.variant = "Unsupported" ->
            IF r.variant = "Unsupported" THEN l.payload = r.payload ELSE FALSE
      [] l.variant = "ReportableBug" ->
            IF r.variant = "ReportableBug" THEN l.payload = r.payload ELSE FALSE
      [] l.variant = "Corruption" ->
            IF r.variant = "Corruption" THEN l.payload = r.payload ELSE FALSE
      [] l.variant = "Io" ->
            IF r.variant = "Io" THEN l.payload = r.payload ELSE FALSE

\* fn eq(&self, other: &Error<A>) -> bool: match self { ... &Io(_) => false }
Eq(l, r) ==
    CASE l.variant = "CasFailed" ->
            IF r.variant = "CasFailed" THEN l.payload = r.payload ELSE FALSE
      [] l.variant = "Unsupported" ->
            IF r.variant = "Unsupported" THEN l.payload = r.payload ELSE FALSE
      [] l.variant = "ReportableBug" ->
            IF r.variant = "ReportableBug" THEN l.payload = r.payload ELSE FALSE
      [] l.variant = "Corruption" ->
            IF r.variant = "Corruption" THEN l.payload = r.payload ELSE FALSE
      [] l.variant = "Io" -> FALSE

\* other.into(): the conversion From<T> for Other yields a value of type Other.
Into(a) == Typed("Other", a.v)

\* What an operation of Error hands back: a value, or nothing when it panics.
Returned(op, v) == [op |-> op, tag |-> "value", val |-> v]
Panicked(op) == [op |-> op, tag |-> "panic", val |-> 0]

\* cast moving the payload of CasFailed across without converting it
CastKeepsPayload(e) ==
    CASE e.variant = "CasFailed" -> Returned("cast", CasFailed(e.payload))
      [] e.variant = "Unsupported" -> Returned("cast", Unsupported(e.payload))
      [] e.variant = "ReportableBug" -> Returned("cast", ReportableBug(e.payload))
      [] e.variant = "Io" -> Returned("cast", Io(e.payload))
      [] e.variant = "Corruption" -> Returned("cast", Corruption(e.payload))

\* pub fn cast<Other>(self) -> Error<Other> where Other: From<T>
Cast(e) ==
    CASE e.variant = "CasFailed" -> Returned("cast", CasFailed(Into(e.payload)))
      [] e.variant = "Unsupported" -> Returned("cast", Unsupported(e.payload))
      [] e.variant = "ReportableBug" -> Returned("cast", ReportableBug(e.payload))
      [] e.variant = "Io" -> Returned("cast", Io(e.payload))
      [] e.variant = "Corruption" -> Returned("cast", Corruption(e.payload))

\* danger_cast panicking on Unsupported as well
DangerCastPanicsMore(e) ==
    CASE e.variant = "CasFailed" -> Panicked("danger_cast")
      [] e.variant = "Unsupported" -> Panicked("danger_cast")
      [] e.variant = "ReportableBug" -> Returned("danger_cast", ReportableBug(e.payload))
      [] e.variant = "Io" -> Returned("danger_cast", Io(e.payload))
      [] e.variant = "Corruption" -> Returned("danger_cast", Corruption(e.payload))

\* pub fn danger_cast<Other>(self) -> Error<Other>: CasFailed(_) => panic!(..)
DangerCast(e) ==
    CASE e.variant = "CasFailed" -> Panicked("danger_cast")
      [] e.variant = "Unsupported" -> Returned("danger_cast", Unsupported(e.payload))
      [] e.variant = "ReportableBug" -> Returned("danger_cast", ReportableBug(e.payload))
      [] e.variant = "Io" -> Returned("danger_cast", Io(e.payload))
      [] e.variant = "Corruption" -> Returned("danger_cast", Corruption(e.payload))

stack == <<head, heap, allocated, handles, pc, hd, nd, nx, val, res, ret, nextVal,
           abs, lin, order, pushed, delivered, freed, doubleFree, uaf, changed>>

\* Two values of Error<Actual> are at hand; nothing has been applied to them.
InitError == StackInit /\ lhs \in Errors /\ rhs \in Errors /\ out = NoOut

\* lhs == rhs
ApplyEq ==
    /\ out.tag # "panic"
    /\ out' = Returned("eq", Eq(lhs, rhs))
    /\ UNCHANGED <<stack, lhs, rhs>>

\* lhs.cast()
ApplyCast ==
    /\ out.tag # "panic"
    /\ out' = Cast(lhs)
    /\ UNCHANGED <<stack, lhs, rhs>>

\* lhs.danger_cast(): a panic ends the program
ApplyDangerCast ==
    /\ out.tag # "panic"
    /\ out' = DangerCast(lhs)
    /\ UNCHANGED <<stack, lhs, rhs>>

\* ------------------------------------------------------- specifications
\* Threads that run push and pop_all concurrently.
NextPushPopAll == \E t \in Threads : Push(t) \/ PopAll(t)
SpecPushPopAll == Init /\ [][NextPushPopAll]_vars

\* Threads that run every operation of the stack concurrently.
Next == \E t \in Threads : Push(t) \/ TryPop(t) \/ PopAll(t) \/ CompareAndPush(t)
Spec == Init /\ [][Next]_vars

\* Threads that run push, try_pop and pop_all concurrently.
NextPops == \E t \in Threads : Push(t) \/ TryPop(t) \/ PopAll(t)
SpecPops == Init /\ [][NextPops]_vars

\* Every operation, with at most one removal (try_pop, pop_all) in flight at a time.
Removing == {"pop_read", "pop_cas", "pop_take", "drain"}
NoRemoval == \A u \in Threads : pc[u] \notin Removing
NextOneRemover ==
    \E t \in Threads :
        \/ Push(t)
        \/ CompareAndPush(t)
        \/ (NoRemoval \/ pc[t] \in Removing) /\ (TryPop(t) \/ PopAll(t))
SpecOneRemover == Init /\ [][NextOneRemover]_vars

\* Fair scheduling: a thread that is inside a push keeps taking its steps.
SpecFair == SpecOneRemover /\ \A t \in Threads : WF_vars(Push(t))

\* Operations that do not overlap in time: one starts when no other runs.  A swap
\* then finds the head its operation read, so the steps after a failed swap are
\* left out (C8 states that they cannot be taken).
AllIdle == \A u \in Threads : pc[u] = "idle"
Running(t) == pc[t] # "idle" /\ \A u \in Threads \ {t} : pc[u] = "idle"
NextSeq ==
    \E t \in Threads :
        /\ AllIdle \/ Running(t)
        /\ \/ PushLoad(t) \/ PushAlloc(t) \/ PushCasOk(t)
           \/ PopLoadEmpty(t) \/ PopLoad(t) \/ PopRead(t) \/ PopCasOk(t) \/ PopTake(t)
           \/ PopAll(t)
           \/ CompareAndPush(t)
           \/ DropStack(t)
SpecSeq == Init /\ [][NextSeq]_vars

\* Operations that do not overlap, on handles that are cloned and dropped.
NextClone == NextSeq \/ \E t \in Threads : AllIdle /\ CloneStack(t)
SpecClone == Init /\ [][NextClone]_vars

\* Threads push concurrently; once every push has returned, thread 1 alone pops.
PopsBegun == freed # {} \/ \E u \in Threads : pc[u] \in Removing
NextPushThenPop ==
    \/ \E t \in Threads : ~PopsBegun /\ Push(t)
    \/ /\ AllIdle \/ Running(1)
       /\ \/ PopLoadEmpty(1) \/ PopLoad(1) \/ PopRead(1) \/ PopCasOk(1) \/ PopTake(1)
SpecPushThenPop == Init /\ [][NextPushThenPop]_vars

\* The operations of Error applied to any two of its values.
NextError == ApplyEq \/ ApplyCast \/ ApplyDangerCast
SpecError == InitError /\ [][NextError]_vars

\* ------------------------------------------------------------------ claims
Count(sq, v) == Cardinality({i \in 1..Len(sq) : sq[i] = v})
ValsFrom(p) ==
    LET c == ChainFrom(p, MaxAddr + 1) IN [i \in 1..Len(c) |-> heap[c[i]].inner]

\* How often value v stands in a chain that a running pop_all has detached.
DetachedCount(v) ==
    Cardinality({x \in Threads \X (1..(MaxAddr + 1)) :
        /\ pc[x[1]] = "drain"
        /\ x[2] <= Len(ValsFrom(nd[x[1]]))
        /\ ValsFrom(nd[x[1]])[x[2]] = v})

\* C1: under concurrent push and pop_all every value whose push has returned is in
\* exactly one place (linked in the stack, in the chain a pop_all has detached and
\* is consuming, or in the result of one pop_all), and a pop_all result holds no
\* value twice and no value that was never pushed.
C1_NoLossNoDup ==
    /\ \A v \in pushed : Count(ChainVals, v) + DetachedCount(v) + delivered[v] = 1
    /\ \A v \in Val : delivered[v] > 0 => v \in pushed
    /\ \A t \in Threads : \A v \in Val : Count(res[t], v) <= 1
    /\ ret.op = "pop_all" =>
        /\ \A v \in Val : Count(ret.seq, v) <= 1
        /\ Range(ret.seq) \subseteq pushed

\* A pop_all returns values while a push that ran beside it has linked its own.
C1_Witness ==
    /\ ret.op = "pop_all" /\ ret.seq # <<>>
    /\ head # NULL
    /\ \E u \in Threads : pc[u] = "push_cas"

\* C2: compare_and_push(expected, v) succeeds iff head equals expected at its swap;
\* on success the new head is the node holding v, with successor expected; on
\* failure it returns the head the swap observed, which differs from expected, and
\* head and the chain reached from it are as before, the attempted node not in it.
C2_CasContract ==
    [][\A t \in Threads :
        (pc[t] = "cap_cas" /\ pc'[t] = "idle") =>
            /\ ret'.op = "cap" /\ ret'.t = t
            /\ (ret'.tag = "ok") <=> (head = hd[t])
            /\ ret'.tag = "ok" =>
                /\ head' = nd[t]
                /\ heap'[head'].inner = val[t]
                /\ heap'[head'].next = hd[t]
            /\ ret'.tag # "ok" =>
                /\ ret'.tag = "err"
                /\ ret'.val = head /\ ret'.val # hd[t]
                /\ head' = head /\ heap' = heap
                /\ Chain' = Chain /\ ChainVals' = ChainVals
                /\ nd[t] \notin Range(Chain')]_vars

\* A compare_and_push has failed on a stack that holds a node, returning that node.
C2_Witness ==
    /\ ret.op = "cap" /\ ret.tag = "err"
    /\ ret.val # NULL /\ ret.val = head
    /\ Len(Chain) >= 1

\* The addresses an operation in flight holds: the node a push or compare_and_push
\* has yet to install, the node a try_pop has detached, the chain a pop_all drains.
Owned ==
    {a \in Addr : \E t \in Threads :
        \/ pc[t] \in {"push_cas", "push_relink", "cap_cas"} /\ nd[t] = a
        \/ pc[t] = "pop_take" /\ hd[t] = a
        \/ pc[t] = "drain" /\ a \in Range(ChainFrom(nd[t], MaxAddr + 1))}

\* C3: the node compare_and_push constructs is installed or discarded, never left
\* dangling: every allocated node is reachable from head or held by an operation
\* in flight.
C3_NoDangling == \A a \in allocated : a \in Range(Chain) \/ a \in Owned

\* C4: once the stack has been dropped, after any sequence of operations, every
\* node that was ever linked has been freed, no free has hit an address that held
\* no allocation (nothing is freed twice, by a pop and then the drop or otherwise),
\* and until then no linked node is freed.
C4_DropFreesOnce ==
    /\ ~doubleFree /\ ~uaf
    /\ handles > 0 /\ AllIdle => Range(Chain) \subseteq allocated
    /\ handles = 0 /\ AllIdle =>
        /\ Linked \subseteq freed
        /\ \A a \in allocated : heap[a].inner \notin Linked

\* The stack is dropped with a node still linked, after a pop has freed another.
C4_Witness ==
    /\ handles = 0 /\ AllIdle /\ ret.op = "drop"
    /\ \E v \in freed : delivered[v] = 1
    /\ \E v \in freed : delivered[v] = 0

\* C8: when operations do not overlap, the stack is a sequential LIFO list (abs),
\* whichever thread runs each operation: a push prepends its value, a try_pop
\* returns and removes the most recently pushed value not yet popped, it returns
\* empty exactly when no value is left, and no swap fails (no conflict).
C8_SequentialLifo ==
    [][/\ handles' > 0 => ChainVals' = abs'
       /\ ret'.tag # "err" \/ ret'.op # "try_pop"
       /\ \A t \in Threads :
            /\ pc'[t] \in {"push_cas", "pop_cas"} => head' = hd'[t]
            /\ (pc[t] = "push_cas" /\ pc'[t] = "idle") =>
                    ChainVals' = <<val[t]>> \o ChainVals
            /\ (pc[t] = "idle" /\ pc'[t] = "pop_read") => abs # <<>>
            /\ (ret'.op = "try_pop" /\ ret'.tag = "none" /\ ret'.t = t) =>
                    abs = <<>> /\ UNCHANGED <<shared, history>>
            /\ (pc[t] = "pop_cas" /\ pc'[t] = "pop_take") =>
                    lin'[t] = Head(ChainVals) /\ ChainVals' = Tail(ChainVals)
            /\ (pc[t] = "pop_take" /\ pc'[t] = "idle") =>
                    /\ ret' = Result(t, "try_pop", "some", lin[t], <<>>)
                    /\ ChainVals' = ChainVals]_vars

\* push(1), push(2), then two pops that yield 2, then 1.
C8_Witness ==
    /\ ret.op = "try_pop" /\ ret.tag = "some" /\ ret.val = 1
    /\ order = <<1, 2>> /\ nextVal = 3
    /\ delivered[1] = 1 /\ delivered[2] = 1
    /\ head = NULL

\* The number of values that pops have returned.
Popped == Cardinality({v \in Val : delivered[v] > 0})

\* C9: after concurrent pushes of distinct values have all returned, the try_pops
\* of one thread return the pushed values, each once, in the reverse of the order
\* in which the pushes' swaps took effect; every try_pop returns a value until all
\* are returned, and the next one returns empty.
C9_PushThenPop ==
    /\ \A t \in Threads : pc[t] = "pop_cas" => head = hd[t]
    /\ AllIdle =>
        LET n == Len(order)
            k == Popped
        IN  /\ Range(order) = pushed /\ n = nextVal - 1
            /\ \A v \in Val : delivered[v] <= 1
            /\ {v \in Val : delivered[v] = 1} = {order[i] : i \in (n - k + 1)..n}
            /\ ChainVals = [i \in 1..(n - k) |-> order[n - k + 1 - i]]
            /\ ret.op = "try_pop" =>
                /\ ret.tag # "err"
                /\ ret.tag = "some" => k >= 1 /\ ret.val = order[n - k + 1]
                /\ ret.tag = "none" => k = n

\* Two pushes overlapped, the later one's swap first; both values were popped, the
\* later swap's value first, and a further try_pop has returned empty.
C9_Witness ==
    /\ AllIdle /\ order = <<2, 1>>
    /\ Popped = 2
    /\ ret.op = "try_pop" /\ ret.tag = "none"

\* The holders of the node at address a: the stack, while a is reached from
\* head, and every operation in flight that holds a.
Holders(a) ==
    (IF a \in Range(Chain) THEN {0} ELSE {}) \cup
    {t \in Threads :
        \/ pc[t] \in {"push_cas", "push_relink", "cap_cas"} /\ nd[t] = a
        \/ pc[t] = "pop_take" /\ hd[t] = a
        \/ pc[t] = "drain" /\ a \in Range(ChainFrom(nd[t], MaxAddr + 1))}

\* C5: no node has two holders at once: a node detached by a successful try_pop
\* or by pop_all is held by that caller alone and is not reachable from head, and
\* each pushed value is returned by at most one pop.
C5_ExclusiveOwnership ==
    /\ \A a \in Addr : Cardinality(Holders(a)) <= 1
    /\ \A v \in Val : delivered[v] <= 1

\* C6: try_pop makes one attempt.  Its steps up to the swap change nothing; when
\* the swap finds another head than the one it read, it returns the conflict,
\* with head, chain, allocations and payloads as they were; it returns a conflict
\* only then, and only after another thread has written head since the read.
C6_SingleAttempt ==
    [][\A t \in Threads :
        /\ (pc[t] = "idle" /\ pc'[t] = "pop_read") \/ (pc[t] = "pop_read" /\ pc'[t] = "pop_cas") =>
                UNCHANGED <<shared, abs, order, pushed, delivered, freed, doubleFree>>
        /\ (pc[t] = "pop_cas" /\ pc'[t] # "pop_cas" /\ head # hd[t]) =>
                /\ ret' = Result(t, "try_pop", "err", 0, <<>>)
                /\ pc'[t] = "idle"
                /\ UNCHANGED <<shared, abs, order, pushed, delivered, freed, doubleFree>>
                /\ Chain' = Chain /\ ChainVals' = ChainVals
        /\ (ret'.op = "try_pop" /\ ret'.tag = "err" /\ ret'.t = t) =>
                /\ pc[t] = "pop_cas" /\ hd[t] # NULL /\ head # hd[t]
                /\ changed[t]
        /\ (~changed[t] /\ changed'[t]) =>
                /\ head' # head /\ pc'[t] = pc[t]
                /\ \E u \in Threads \ {t} : pc'[u] # pc[u]]_vars

\* A try_pop has returned the conflict on a stack that holds a node.
C6_Witness ==
    /\ ret.op = "try_pop" /\ ret.tag = "err"
    /\ head # NULL

\* C7: a try_pop that reads an empty head returns empty and changes nothing, and
\* a try_pop goes on to its swap only from a head that is not empty.
C7_EmptyPop ==
    [][\A t \in Threads :
        /\ (ret'.op = "try_pop" /\ ret'.tag = "none" /\ ret'.t = t) =>
                /\ head = NULL /\ pc[t] = "idle"
                /\ UNCHANGED <<shared, pc, hd, nd, nx, val, res, nextVal, history>>
        /\ (ret'.op = "try_pop" /\ ret'.t = t /\ pc[t] = "idle") =>
                head = NULL /\ ret'.tag = "none"
        /\ (pc[t] = "idle" /\ pc'[t] = "pop_read") =>
                head # NULL /\ hd'[t] = head]_vars

\* A try_pop returns empty on a stack whose values have all been popped.
C7_Witness ==
    /\ ret.op = "try_pop" /\ ret.tag = "none"
    /\ pushed # {} /\ \A v \in pushed : delivered[v] = 1
    /\ head = NULL /\ ~uaf

\* The values installed as head and not yet returned by a pop, the latest first.
RECURSIVE Remaining(_)
Remaining(n) ==
    IF n = 0 THEN <<>>
    ELSE (IF delivered[order[n]] = 0 THEN <<order[n]>> ELSE <<>>) \o Remaining(n - 1)

\* What a draining pop_all has taken: the payloads collected, then those still to come.
Taken(t) == res[t] \o ValsFrom(nd[t])

\* C11: pop_all's exchange empties head and takes exactly the chain linked at that
\* instant, which holds the values installed before and not yet popped, the latest
\* first; the drain changes neither that sequence nor head, and pop_all returns
\* it (the empty sequence from an empty stack).  A push whose swap follows the
\* exchange links onto the new head, is not in what was taken, and stays linked.
C11_PopAllExchange ==
    [][\A t \in Threads :
        /\ (pc[t] = "idle" /\ pc'[t] = "drain") =>
                /\ head' = NULL /\ Chain' = <<>>
                /\ Taken(t)' = ChainVals
                /\ ChainVals = Remaining(Len(order))
                /\ heap' = heap /\ allocated' = allocated
        /\ (pc[t] = "drain" /\ pc'[t] = "drain") =>
                Taken(t)' = Taken(t)
        /\ (pc[t] = "drain" /\ pc'[t] = "idle") =>
                /\ ret' = Result(t, "pop_all", "vec", 0, Taken(t))
                /\ UNCHANGED <<shared, history>>
        /\ (pc[t] = "drain" /\ head' # head) =>
                \E u \in Threads \ {t} :
                    /\ pc[u] \in {"push_cas", "cap_cas"} /\ pc'[u] = "idle"
                    /\ val[u] \notin Range(Taken(t))
                    /\ ChainVals' = <<val[u]>> \o ChainVals]_vars

\* A pop_all returns the two values linked at its exchange, the later push first,
\* while the value a push linked after the exchange stays in the stack.
C11_Witness ==
    /\ ret.op = "pop_all" /\ ret.seq = <<2, 1>>
    /\ ChainVals = <<3>> /\ delivered[3] = 0

\* C12: head is empty or denotes an allocated, fully constructed node that a
\* successful atomic operation installed, and the next links from head reach empty
\* through distinct allocated nodes, each installed in that way.
C12_HeadWellFormed ==
    /\ \A i \in 1..Len(Chain) :
            /\ Chain[i] \in allocated
            /\ heap[Chain[i]].inner \in Linked
            /\ \A j \in 1..Len(Chain) : Chain[i] = Chain[j] => i = j
    /\ Len(Chain) <= Cardinality(allocated)

\* C13: lhs == rhs is true iff the two are of the same variant among CasFailed,
\* Unsupported, ReportableBug, Corruption with equal payloads; it is false when
\* either side is an Io error (an Io error compared with itself included), and it
\* gives the same answer with the sides exchanged.
C13_ErrorEquality ==
    out.op = "eq" =>
        /\ out.tag = "value"
        /\ out.val <=> /\ lhs.variant = rhs.variant
                       /\ lhs.variant \in {"CasFailed", "Unsupported", "ReportableBug", "Corruption"}
                       /\ lhs.payload = rhs.payload
        /\ lhs.variant # rhs.variant => ~out.val
        /\ (lhs.variant = "Io" \/ rhs.variant = "Io") => ~out.val
        /\ out.val = Eq(rhs, lhs)

\* An Io error has been compared with itself.
C13_Witness ==
    /\ out.op = "eq" /\ lhs.variant = "Io" /\ rhs = lhs
    /\ out.val = FALSE

\* C14: cast returns a value for every input: CasFailed(conv(a)) for CasFailed(a),
\* where conv(a) is the payload as a value of the target type, and for every other
\* variant the same variant with the same payload.
C14_CastTotal ==
    out.op = "cast" =>
        /\ out.tag = "value"
        /\ out.val.variant = lhs.variant
        /\ lhs.variant = "CasFailed" =>
                /\ out.val.payload.ty = "Other"
                /\ out.val.payload.v = lhs.payload.v
        /\ lhs.variant # "CasFailed" => out.val = lhs

\* cast has been applied to a CasFailed value.
C14_Witness ==
    /\ out.op = "cast" /\ lhs.variant = "CasFailed"
    /\ out.val = CasFailed(Typed("Other", 1))

\* C15: danger_cast panics iff it is applied to a CasFailed value; applied to any
\* other variant it returns the same variant with the same payload, which is what
\* cast returns for that input.
C15_DangerCast ==
    out.op = "danger_cast" =>
        /\ (out.tag = "panic") <=> (lhs.variant = "CasFailed")
        /\ lhs.variant # "CasFailed" =>
                /\ out.tag = "value"
                /\ out.val = lhs
                /\ out.val = Cast(lhs).val

\* danger_cast has panicked on a CasFailed value.
C15_Witness ==
    /\ out.op = "danger_cast" /\ out.tag = "panic"
    /\ lhs.variant = "CasFailed"

\* C16: the swaps compare addresses only.  A try_pop's swap succeeds exactly when
\* head holds the address it read, and then installs the successor it read from
\* its snapshot; a compare_and_push's swap succeeds exactly when head holds the
\* address it was given, and installs its node.  Neither asks whether the node at
\* that address is the one the snapshot was taken of (C16_Witness: it is not).
C16_AddressOnlySwap ==
    [][\A t \in Threads :
        /\ (pc[t] = "pop_cas" /\ pc'[t] # "pop_cas") =>
                /\ (pc'[t] = "pop_take") <=> (head = hd[t])
                /\ pc'[t] = "pop_take" => head' = nx[t]
        /\ (pc[t] = "cap_cas" /\ pc'[t] # "cap_cas") =>
                /\ (ret'.tag = "ok") <=> (head = hd[t])
                /\ ret'.tag = "ok" => head' = nd[t]]_vars

\* No freed memory was ever read, and a try_pop's swap has succeeded and installed
\* as head the successor it had read, a node freed since: the node it read was
\* popped, its successor popped and freed, and its address given to a later push.
C16_Witness ==
    /\ ~uaf /\ ~doubleFree
    /\ \E t \in Threads :
        /\ pc[t] = "pop_take" /\ head = nx[t]
        /\ head # NULL /\ head \notin allocated
        /\ hd[t] \in allocated /\ heap[hd[t]].inner = MaxVal

\* C17: no operation reads or writes through a pointer to a node that has been
\* freed (try_pop's read of its snapshot's next link included), and none frees
\* an address that holds no node.
C17_NoReadOfFreed == ~uaf /\ ~doubleFree

\* C19: the fields of a node that has been installed as head do not change while
\* the node is allocated; push writes a next link only in its retry loop, of its
\* own node, which no swap has installed and head does not reach.
C19_LinkImmutable ==
    [][/\ \A a \in allocated :
            (heap[a].inner \in Linked /\ a \in allocated') => heap'[a] = heap[a]
       /\ \A a \in Range(Chain) \cap Range(Chain') : heap'[a] = heap[a]
       /\ \A t \in Threads :
            /\ (pc[t] = "push_relink" /\ pc'[t] = "push_cas") =>
                    /\ val[t] \notin Linked /\ nd[t] \notin Range(Chain)
                    /\ heap' = [heap EXCEPT ![nd[t]].next = hd[t]]
            /\ heap' # heap =>
                    \/ allocated' # allocated
                    \/ \E u \in Threads : pc[u] = "push_relink" /\ pc'[u] = "push_cas"]_vars

\* A push whose first swap failed has relinked its node and installed it on top
\* of the node that won.
C19_Witness ==
    /\ ret.op = "push" /\ order = <<2, 1>>
    /\ ChainVals = <<1, 2>>
    /\ heap[head].next # NULL

\* C18: the handles made by clone share one head; while a handle is live, every
\* node reached from head is allocated (the drop of another handle has not freed
\* it); no node is freed twice; when the last handle has been dropped, every node
\* that was installed has been freed.
C18_SharedDrop ==
    /\ handles > 0 => Range(Chain) \subseteq allocated
    /\ ~doubleFree
    /\ handles = 0 /\ AllIdle => Linked \subseteq freed

PushPcs == {"push_alloc", "push_cas", "push_relink"}

\* C10: a push's swap fails only after another thread has written head since the
\* push last read it; the swap that succeeds links the push's node, holding its
\* value, at head, once; and every push in flight returns.
C10_PushProgress ==
    /\ [][\A t \in Threads :
            /\ (pc[t] = "push_cas" /\ pc'[t] = "push_relink") =>
                    changed[t] /\ head # hd[t] /\ hd'[t] = head
            /\ (pc[t] = "push_cas" /\ pc'[t] = "idle") =>
                    /\ head' = nd[t] /\ heap'[head'] = [inner |-> val[t], next |-> head]
                    /\ val[t] \notin Linked
                    /\ Count(ChainVals', val[t]) = 1
                    /\ ret' = Result(t, "push", "unit", 0, <<>>)
            /\ (~changed[t] /\ changed'[t]) =>
                    /\ head' # head /\ pc'[t] = pc[t]
                    /\ \E u \in Threads \ {t} : pc'[u] # pc[u]]_vars
    /\ \A t \in Threads : (pc[t] \in PushPcs) ~> (pc[t] = "idle")

\* A push has returned while another push, whose swap it made fail, is retrying.
C10_Witness ==
    /\ ret.op = "push"
    /\ \E u \in Threads : pc[u] = "push_relink" /\ hd[u] = head

====
